---- MODULE Spec2Model ----
(***************************************************************************)
(* Model of KauflandBot (src/unnamed/part_001, the most developed revision *)
(* of the bot): handle -> inputSearchFilters -> exploreSERP -> product     *)
(* visits (visitAndDoHumanActivity / doProductAction) -> cart snapshots.   *)
(*                                                                         *)
(* The web site is the environment.  Its answers are nondeterministic      *)
(* choices taken at the point where the code reads them: the number of     *)
(* result pages, the number of items of a page, each listed item, whether  *)
(* a paging click is followed by the current-page indicator, whether the   *)
(* add-to-cart overlay shows up, and whether a wait times out.             *)
(***************************************************************************)
EXTENDS Integers, Sequences, FiniteSets, TLC

\* ---------------------------------------------------------------- bounds
MaxSitePages == 3      \* result pages the site can have
MaxSearchPages == 2    \* largest task.numberPagesToSearch
MaxItems == 2          \* article.product elements on one result page
MaxRandom == 1         \* random-visit actions configured for one page
MaxClicks == 2         \* add-to-cart clicks counted (the counter saturates)
MaxVisitErrors == 1    \* failures injected inside doProductAction's try block
MaxCartLines == 3      \* line items the cart page can show
MaxCalls == 2          \* getCartStatus calls made in a row
NumInstances == 2      \* bot instances sharing one browser
MaxTargets == 4        \* browser tabs asked for by the instances together

Min(a, b) == IF a < b THEN a ELSE b

\* ------------------------------------------------------------- the inputs
IDs == {"p", "v", "x"}          \* product identifiers known to the site
InitialCart == {"x"}             \* what the cart holds when the run starts
TaskProductId == "p"             \* task.productAction.productId

\* an href, already split at '/' as productUrl.split('/') returns it
ValidHref(id) == <<"", "product", id>>
InvalidHrefs == {<<"", "product">>, <<"", "shop", "x">>}

\* an article.product element: its <a> (or none), the href, the sponsored label
Items ==
    {[hasLink |-> TRUE, href |-> ValidHref(id), sponsored |-> s] : id \in IDs, s \in BOOLEAN}
    \cup {[hasLink |-> TRUE, href |-> h, sponsored |-> FALSE] : h \in InvalidHrefs}
    \cup {[hasLink |-> FALSE, href |-> <<>>, sponsored |-> FALSE]}
EndItem == [hasLink |-> FALSE, href |-> <<"end">>, sponsored |-> FALSE]

\* minTimeOnPage of the task's own action and of the random-visit actions
TaskMinTimeOnPage == 2
RandomMinTimeOnPage == 1

\* IProductAction (part_001:31-34)
ProductAction(a, t) == [addToCart |-> a, minTimeOnPage |-> t]

\* task.productAction.randomProductVisitsPerPage built from per-page counts:
\* the j-th action of a page adds to cart iff j is odd
RandomPlan(counts) ==
    [i \in 1..Len(counts) |-> [j \in 1..counts[i] |-> ProductAction(j % 2 = 1, RandomMinTimeOnPage)]]
CountSeqs == UNION {[1..n -> 0..MaxRandom] : n \in 0..MaxSearchPages}

Tasks ==
    {[productId |-> TaskProductId,
      variationIds |-> vs,
      numberPagesToSearch |-> n,
      productInfoOnNotFound |-> f,
      addToCart |-> a,
      minTimeOnPage |-> TaskMinTimeOnPage,
      randomProductVisitsPerPage |-> RandomPlan(c)] :
        vs \in SUBSET {"v"}, n \in 1..MaxSearchPages, f \in BOOLEAN,
        a \in BOOLEAN, c \in CountSeqs}

\* ------------------------------------------------------------ result types
NoAddToCart == [set |-> FALSE, before |-> FALSE, after |-> FALSE]
\* IProductActionsResult; optional fields carry a "set" flag
ActionResult(id, page) ==
    [productId |-> id, foundOnPage |-> page, timeOnPageSet |-> FALSE,
     addToCart |-> NoAddToCart, error |-> FALSE]
NoProductInfo == [set |-> FALSE, productId |-> ""]

\* this.taskResult as handle() creates it
InitialTaskResult ==
    [totalResultPages |-> 0,
     foundOnPage |-> 0,
     foundId |-> "",
     isFoundVariationId |-> FALSE,
     foundBySearch |-> FALSE,
     isFoundAdvertised |-> FALSE,
     cart |-> [itemsCountBefore |-> 0, itemsCountAfter |-> 0],
     productInfo |-> NoProductInfo,
     mainProductPageActions |-> ActionResult("", 0),
     otherProducts |-> <<>>]

VARIABLES
    task,                 \* this.task
    taskResult,           \* this.taskResult
    pc,                   \* position of the single thread of control
    threw,                \* an exception reached handle()'s catch
    cart,                 \* site: product ids currently in the cart
    sitePages,            \* site: number of result pages of the search
    siteEmpty,            \* site: the search has no results
    pageControls,         \* site: number of .rd-page--page elements rendered
    productExists,        \* site: the product page of task.productId exists ("unknown" until asked)
    indicator,            \* site: text of span.rd-page--current
    cartStatusBefore,     \* handle: cartStatusBefore
    currentPageNumber,    \* exploreSERP: currentPageNumber
    currentPageSpanValue, \* exploreSERP: currentPageSpanValue
    nItems,               \* exploreSERP: allProducts.length
    productIndex,         \* exploreSERP: productIndex
    product,              \* exploreSERP: allProducts[productIndex]
    randomProductActionsToVisit,
    randomProductIndex,
    vKind,                \* which call of visitAndDoHumanActivity: "main" / "random"
    vId,                  \* its productId
    vAction,              \* its productAction
    vResult,              \* doProductAction: productActionResult
    beforeStatus,         \* doProductAction: beforeStatus
    overlayWorks,         \* site: the add-to-cart overlay appears on a click
    clickCount,           \* add-to-cart clicks of the current visit
    scannedPages,         \* history: pages whose items were enumerated
    candOnPage,           \* history: candidates examined on the current page
    mainVisits,           \* history: main-product visits started
    randomVisits,         \* history: random visits started
    adVisits,             \* history: visits started on a sponsored item
    directVisits,         \* history: direct (by URL) product visits started
    visitErrors,          \* history: failures raised inside doProductAction
    resynced,             \* history: the page being scanned was reached by a resynchronisation
    pagingClicked         \* history: a paging control was clicked

\* one getCartStatus call looked at from inside (its concurrent link reads)
VARIABLES
    cartLines,            \* site: hrefs of the cart page's .unit-widget-unit__picture-link
    cartCounter,          \* site: the number shown in .filled-cart .article-counter
    gcsPc,                \* getCartStatus: position ("idle" / "reading")
    pictureLinks,         \* getCartStatus: indices of the link reads still awaited
    totalCount,           \* getCartStatus: totalCount
    productIds,           \* getCartStatus: productIds as pushed so far
    statuses,             \* the CartStatus values returned so far
    cartMutated           \* history: the cart changed between the calls

cartPageVars == <<cartLines, cartCounter, gcsPc, pictureLinks, totalCount,
                  productIds, statuses, cartMutated>>

\* several bot instances on one browser
VARIABLES
    bPc,                  \* per instance: position of its thread of control
    listeners,            \* browser: instances with a 'targetcreated' handler registered
    requested,            \* browser: tabs asked for and not yet created
    resolved,             \* per instance: the target its handler resolved productPage with
    created               \* history: number of targets created

browserVars == <<bPc, listeners, requested, resolved, created>>

\* inputSearchFilters seen from inside: the filter fields and the result summary
VARIABLES wantPrice, applyCount, keywordEcho, priceEcho, mismatchLogged,
          emptyWon, countText, pageControlCount, lastPageLabel,
          fResultItems, fResultPages, fPc
filterVars == <<wantPrice, applyCount, keywordEcho, priceEcho, mismatchLogged,
                emptyWon, countText, pageControlCount, lastPageLabel,
                fResultItems, fResultPages, fPc>>

\* the browsing contexts of one run: which are open, the readiness wait of
\* the context being opened, and the cookie-banner handler
VARIABLES hPc, hThrew, openPages, closing, gatePage, gateRet, firstMarker,
          reloads, afterReload, gateReturned, inVisitTry, cartRet, visitsDone,
          cookie, clickDuring, front
gateVars == <<gatePage, gateRet, firstMarker, reloads, afterReload, gateReturned>>
cookieVars == <<cookie, clickDuring>>
pagesVars == <<hPc, hThrew, openPages, closing, gateVars, inVisitTry, cartRet,
               visitsDone, cookieVars, front>>

\* doProductAction's human-activity loop seen with its clock
VARIABLES actMinTime, clockNow, startTime, currentTime, actTimeOnPage, aPc
activityVars == <<actMinTime, clockNow, startTime, currentTime, actTimeOnPage, aPc>>

\* the number conversions of getProductInfo and inputSearchFilters applied to
\* one localized figure
VARIABLES figKind, figText, figWritten, figParsed, qPc
parseVars == <<figKind, figText, figWritten, figParsed, qPc>>
lateVars == <<activityVars, parseVars>>
extraVars == <<filterVars, pagesVars, lateVars>>
sideVars == <<cartPageVars, browserVars, extraVars>>

siteVars == <<cart, sitePages, pageControls, productExists, siteEmpty, indicator>>
scanVars == <<currentPageNumber, currentPageSpanValue, nItems, productIndex,
              product, randomProductActionsToVisit, randomProductIndex>>
visitVars == <<vKind, vId, vAction, vResult, beforeStatus, overlayWorks, clickCount>>
visitCounts == <<scannedPages, candOnPage, mainVisits, randomVisits, adVisits, directVisits>>
histVars == <<visitCounts, visitErrors, resynced, pagingClicked>>
runVars == <<task, taskResult, pc, threw, cartStatusBefore,
             siteVars, scanVars, visitVars, histVars>>
vars == <<runVars, sideVars>>

\* ------------------------------------------------------------ pure helpers
\* CartStatus returned by getCartStatus for the cart c
CartStatusOf(c) == [totalCount |-> Cardinality(c), productIds |-> c]

\* exploreSERP: the validity test of the split product url
ValidProductUrl(splitedProductUrl) ==
    ~(\/ Len(splitedProductUrl) < 3
      \/ splitedProductUrl[1] # ""
      \/ splitedProductUrl[2] # "product")

\* exploreSERP: isMainProduct
IsMainProductAny(productId) == TRUE
IsMainProduct(productId) ==
    \/ task.productId = productId
    \/ productId \in task.variationIds

\* exploreSERP: the branch taken for one listed item, in the code's order
ClassifyAdIgnored(item) ==
    IF ~item.hasLink THEN "nolink"
    ELSE IF ~ValidProductUrl(item.href) THEN "invalid"
    ELSE IF IsMainProduct(item.href[3])
         THEN (IF item.sponsored THEN "adMain" ELSE "main")
    ELSE "candidate"
ClassifyMainAsCandidate(item) ==
    IF ~item.hasLink THEN "nolink"
    ELSE IF ~ValidProductUrl(item.href) THEN "invalid"
    ELSE IF item.sponsored
         THEN (IF IsMainProduct(item.href[3]) THEN "adMain" ELSE "ad")
    ELSE "candidate"
ClassifyMainFirst(item) ==
    IF ~item.hasLink THEN "nolink"
    ELSE IF ~ValidProductUrl(item.href) THEN "invalid"
    ELSE IF IsMainProduct(item.href[3]) THEN "main"
    ELSE IF item.sponsored THEN "ad"
    ELSE "candidate"
Classify(item) ==
    IF ~item.hasLink THEN "nolink"
    ELSE IF ~ValidProductUrl(item.href) THEN "invalid"
    ELSE IF item.sponsored
         THEN (IF IsMainProduct(item.href[3]) THEN "adMain" ELSE "ad")
    ELSE IF IsMainProduct(item.href[3]) THEN "main"
    ELSE "candidate"

\* exploreSERP: isFoundVariationId = task.productAction.productId !== productId
IsVariationIdInverted(taskProductId, productId) == taskProductId = productId
IsVariationId(taskProductId, productId) == taskProductId # productId

\* exploreSERP: the bound of the while loop
LoopBoundTotalOnly(totalResultPages, numberPagesToSearch) == totalResultPages
LoopBound(totalResultPages, numberPagesToSearch) ==
    Min(totalResultPages, numberPagesToSearch)

\* exploreSERP: Math.random() < (actions.length - randomProductIndex) /
\* (allProducts.length - productIndex); Math.random() is in [0, 1)
MayVisit(slotsLeft, itemsLeft) == slotsLeft > 0
MaySkip(slotsLeft, itemsLeft) == slotsLeft < itemsLeft

\* getCurrentPageNumber
GetCurrentPageNumber(totalResultPages, shown) ==
    IF totalResultPages = 1 THEN 1 ELSE shown

\* exploreSERP: currentPageSpanValue !== currentPageNumber
PageMismatchIgnored(spanValue, expected) == FALSE
PageMismatch(spanValue, expected) == spanValue # expected

\* nextOrPrevPage: targetPage
TargetPageAlwaysNext(currentPage, toNext) == currentPage + 1
TargetPage(currentPage, toNext) == currentPage + (IF toNext THEN 1 ELSE -1)

\* exploreSERP: task.productAction as handed to the main visit
MainActionNoCart == ProductAction(FALSE, task.minTimeOnPage)
MainAction == ProductAction(task.addToCart, task.minTimeOnPage)

\* inputSearchFilters: totalResultPages from the .rd-page--page elements
ReadTotalResultPagesNoDefault(pagesLength, lastText) == lastText
ReadTotalResultPages(pagesLength, lastText) ==
    IF pagesLength # 0 THEN lastText ELSE 1

\* handle: taskResult.cart from the two run-level snapshots
CartCountsSwapped(before, after) ==
    [itemsCountBefore |-> after.totalCount, itemsCountAfter |-> before.totalCount]
CartCounts(before, after) ==
    [itemsCountBefore |-> before.totalCount, itemsCountAfter |-> after.totalCount]

\* exploreSERP: randomProductActionsToVisit of the page currentPageNumber
RandomActionsOfFirstPage(perPage, currentPage) ==
    IF 1 <= Len(perPage) THEN perPage[1] ELSE <<>>
RandomActionsForPage(perPage, currentPage) ==
    IF currentPage <= Len(perPage) THEN perPage[currentPage] ELSE <<>>

\* inputSearchFilters: searchInputHandle.evaluate(el => el.classList.contains(
\* 'empty-search__notification')); the handle is input.rh-search__input, which
\* does not carry the class of the notification element
SearchInputHasEmptyClass(empty) == FALSE

\* exploreSERP: what the direct visit writes: taskResult.productInfo
DirectVisitResultAsMainVisit(result, info) ==
    [result EXCEPT !.productInfo = info,
                   !.mainProductPageActions.productId = info.productId]
DirectVisitResult(result, info) == [result EXCEPT !.productInfo = info]

\* exploreSERP: the test guarding the direct visit after the loop
DirectVisitNeeded(foundBySearch, productInfoOnNotFound) == ~foundBySearch

\* ------------------------------------------------------------------- Init
\* getCartStatus: the href of a cart line, '' when the attribute is missing
CartHrefs == {ValidHref(id) : id \in IDs} \cup {<<"">>}
\* getCartStatus: productId.trim().split('/')[2]
CartLinkId(href) == IF Len(href) >= 3 THEN href[3] ELSE "undefined"
\* getCartStatus: productIds.push(...)
PushOverwrites(ids, href) == <<href>>
Push(ids, href) == Append(ids, href)
\* the elements of an array
Range(f) == {f[i] : i \in DOMAIN f}

Instances == 1..NumInstances
NoTarget == [owner |-> 0, kind |-> "none", no |-> 0]

\* no getCartStatus call is being looked at from inside
\* ---- texts the site shows and the numbers the code reads from them ----
MaxText == 3
MaxLabel == 2
Chars == {"0", "1", ".", "+", " ", "x"}
Digits == {"0", "1"}
Texts == UNION {[1..n -> Chars] : n \in 0..MaxText}
Labels == UNION {[1..n -> Chars] : n \in 0..MaxLabel}

\* a JavaScript number: NaN, or a decimal given by the digits before and after
\* the point (leading and trailing zeros dropped), or not assigned yet
NaN == [kind |-> "nan", whole |-> <<>>, frac |-> <<>>]
Undefined == [kind |-> "undefined", whole |-> <<>>, frac |-> <<>>]
RECURSIVE DropLeadingZeros(_)
DropLeadingZeros(ds) ==
    IF ds # <<>> /\ Head(ds) = "0" THEN DropLeadingZeros(Tail(ds)) ELSE ds
RECURSIVE DropTrailingZeros(_)
DropTrailingZeros(ds) ==
    IF ds # <<>> /\ ds[Len(ds)] = "0"
    THEN DropTrailingZeros(SubSeq(ds, 1, Len(ds) - 1)) ELSE ds
Decimal(w, f) ==
    [kind |-> "num", whole |-> DropLeadingZeros(w), frac |-> DropTrailingZeros(f)]
Num(ds) == Decimal(ds, <<>>)
Zero == Num(<<>>)
One == Num(<<"1">>)

\* String.prototype.replace(c, ''): drops the first occurrence of c only
RECURSIVE ReplaceFirst(_, _)
ReplaceFirst(s, c) ==
    IF s = <<>> THEN <<>>
    ELSE IF Head(s) = c THEN Tail(s)
    ELSE <<Head(s)>> \o ReplaceFirst(Tail(s), c)
\* String.prototype.trim()
RECURSIVE TrimStart(_)
TrimStart(s) == IF s # <<>> /\ Head(s) = " " THEN TrimStart(Tail(s)) ELSE s
RECURSIVE TrimEnd(_)
TrimEnd(s) ==
    IF s # <<>> /\ s[Len(s)] = " " THEN TrimEnd(SubSeq(s, 1, Len(s) - 1)) ELSE s
Trim(s) == TrimEnd(TrimStart(s))
\* String.prototype.split(' ')[0]: what stands before the first blank
RECURSIVE FirstWord(_)
FirstWord(s) ==
    IF s = <<>> \/ Head(s) = " " THEN <<>>
    ELSE <<Head(s)>> \o FirstWord(Tail(s))
\* Number(string): blanks trimmed, the empty string is 0, an optional sign,
\* digits with at most one point and at least one digit, anything else NaN
UnsignedNumber(u) ==
    LET dots == {i \in DOMAIN u : u[i] = "."}
        rest == {i \in DOMAIN u : u[i] \notin Digits \cup {"."}}
    IN  IF rest # {} \/ Cardinality(dots) > 1 \/ Cardinality(dots) = Len(u)
        THEN NaN
        ELSE IF dots = {} THEN Num(u)
        ELSE LET d == CHOOSE i \in dots : TRUE
             IN  Decimal(SubSeq(u, 1, d - 1), SubSeq(u, d + 1, Len(u)))
JsNumber(s) ==
    LET t == Trim(s)
    IN  IF t = <<>> THEN Zero
        ELSE IF Head(t) = "+" THEN UnsignedNumber(Tail(t))
        ELSE UnsignedNumber(t)
\* x || 1 on a number: NaN and 0 are falsy
OrOneDropped(x) == x
OrOne(x) == IF x = NaN \/ x = Zero THEN One ELSE x

\* inputSearchFilters: totalResultItems from the text of the race winner
TotalResultItemsOf(text) ==
    OrOne(JsNumber(FirstWord(Trim(ReplaceFirst(ReplaceFirst(text, "."), "+")))))
\* inputSearchFilters: totalResultPages from the .rd-page--page elements
TotalResultPagesOf(pagesLength, lastText) ==
    IF pagesLength > 0 THEN JsNumber(Trim(lastText)) ELSE One

FiltersIdle ==
    /\ wantPrice = FALSE
    /\ applyCount = 0
    /\ keywordEcho = TRUE
    /\ priceEcho = TRUE
    /\ mismatchLogged = FALSE
    /\ emptyWon = FALSE
    /\ countText = <<>>
    /\ pageControlCount = 0
    /\ lastPageLabel = <<>>
    /\ fResultItems = Undefined
    /\ fResultPages = Undefined
    /\ fPc = "idle"
GateIdle ==
    /\ gatePage = "none"
    /\ gateRet = "none"
    /\ firstMarker = "none"
    /\ reloads = 0
    /\ afterReload = "none"
    /\ gateReturned = FALSE
PagesFieldsInit ==
    /\ hThrew = FALSE
    /\ openPages = {}
    /\ closing = {}
    /\ GateIdle
    /\ inVisitTry = FALSE
    /\ cartRet = "none"
    /\ visitsDone = 0
    /\ cookie = "notStarted"
    /\ clickDuring = "none"
    /\ front = "none"
PagesIdle == hPc = "idle" /\ PagesFieldsInit
ActivityIdle ==
    /\ actMinTime = 0
    /\ clockNow = 0
    /\ startTime = 0
    /\ currentTime = 0
    /\ actTimeOnPage = -1
    /\ aPc = "idle"
ParseIdle ==
    /\ figKind = "none"
    /\ figText = <<>>
    /\ figWritten = Undefined
    /\ figParsed = Undefined
    /\ qPc = "idle"
ExtraIdle == FiltersIdle /\ PagesIdle /\ ActivityIdle /\ ParseIdle

CartPageIdle ==
    /\ cartLines = <<>>
    /\ cartCounter = 0
    /\ gcsPc = "idle"
    /\ pictureLinks = {}
    /\ totalCount = 0
    /\ productIds = <<>>
    /\ statuses = <<>>
    /\ cartMutated = FALSE

\* a browser nobody has asked anything of
BrowserIdle ==
    /\ bPc = [i \in Instances |-> "idle"]
    /\ listeners = {}
    /\ requested = {}
    /\ resolved = [i \in Instances |-> NoTarget]
    /\ created = 0

\* the fields of a run as handle() finds them
RunFieldsInit ==
    /\ taskResult = InitialTaskResult
    /\ threw = FALSE
    /\ cart = InitialCart
    /\ sitePages = 1
    /\ siteEmpty = FALSE
    /\ pageControls = 0
    /\ productExists = "unknown"
    /\ indicator = 1
    /\ cartStatusBefore = CartStatusOf({})
    /\ currentPageNumber = 1
    /\ currentPageSpanValue = 1
    /\ nItems = 0
    /\ productIndex = 0
    /\ product = EndItem
    /\ randomProductActionsToVisit = <<>>
    /\ randomProductIndex = 0
    /\ vKind = "none"
    /\ vId = ""
    /\ vAction = ProductAction(FALSE, 0)
    /\ vResult = ActionResult("", 0)
    /\ beforeStatus = CartStatusOf({})
    /\ overlayWorks = FALSE
    /\ clickCount = 0
    /\ scannedPages = <<>>
    /\ candOnPage = 0
    /\ mainVisits = 0
    /\ randomVisits = 0
    /\ adVisits = 0
    /\ directVisits = 0
    /\ visitErrors = 0
    /\ resynced = FALSE
    /\ pagingClicked = FALSE

Init ==
    /\ task \in Tasks
    /\ pc = "start"
    /\ RunFieldsInit
    /\ CartPageIdle
    /\ BrowserIdle
    /\ ExtraIdle

\* --------------------------------------------------------------- helpers
\* an exception reaches the catch of handle(), which logs and returns
Abort ==
    /\ pc' = "returned"
    /\ threw' = TRUE

\* the for loop moves to the next element of allProducts
Advance == productIndex' = productIndex + 1

\* nextOrPrevPage(mainPage, toNext) returning r; the second disjunct is the
\* timeout of a wait (the paging control or the indicator never gets there)
NextOrPrevPage(toNext, r) ==
    IF taskResult.totalResultPages = 1
    THEN /\ r = (IF toNext THEN 2 ELSE 0)
         /\ indicator' = indicator
         /\ pagingClicked' = pagingClicked
    ELSE /\ r = TargetPage(GetCurrentPageNumber(taskResult.totalResultPages, indicator), toNext)
         /\ r \in 1..sitePages
         /\ indicator' = r
         /\ pagingClicked' = TRUE
\* the wait for the two paging buttons (before the click) or the wait for the
\* indicator (after it) runs into its timeout
NextOrPrevPageTimesOut ==
    /\ taskResult.totalResultPages # 1
    /\ indicator' = indicator
    /\ pagingClicked' \in {pagingClicked, TRUE}

\* ---------------------------------------------------------------- handle
\* handle(): open the main page and wait for it (outside the try block)
HandleOpenMainPage ==
    /\ pc = "start"
    /\ \/ pc' = "actions"
       \/ pc' = "crashed"
    /\ UNCHANGED <<sideVars, task, taskResult, threw, cartStatusBefore, siteVars,
                   scanVars, visitVars, histVars>>

\* handle(): checkProfile and the first getCartStatus
HandleCartBefore ==
    /\ pc = "actions"
    /\ \/ /\ cartStatusBefore' = CartStatusOf(cart)
          /\ pc' = "filters"
          /\ UNCHANGED threw
       \/ /\ Abort
          /\ UNCHANGED cartStatusBefore
    /\ UNCHANGED <<sideVars, task, taskResult, siteVars, scanVars, visitVars, histVars>>

\* inputSearchFilters: type the filters, read the result summary.  The
\* empty test is made on searchInputHandle, whose class list never holds
\* 'empty-search__notification', so the populated branch is always taken
InputSearchFilters ==
    /\ pc = "filters"
    /\ \/ \E sp \in 1..MaxSitePages, empty \in BOOLEAN, controls \in 0..MaxSitePages :
            /\ empty => sp = 1
            /\ controls \in {0, sp}
            /\ controls = 0 => sp = 1
            /\ sitePages' = sp
            /\ pageControls' = controls
            /\ siteEmpty' = empty
            /\ indicator' = 1
            /\ taskResult' = [taskResult EXCEPT
                                !.totalResultPages =
                                    IF SearchInputHasEmptyClass(empty) THEN 0
                                    ELSE ReadTotalResultPages(controls, controls)]
            /\ pc' = "loop"
            /\ UNCHANGED threw
       \/ /\ Abort
          /\ UNCHANGED <<taskResult, sitePages, pageControls, siteEmpty, indicator>>
    /\ UNCHANGED <<sideVars, task, cartStatusBefore, cart, productExists, scanVars,
                   visitVars, histVars>>

\* the site shows another result page than the one the run navigated to
\* (a late response, a re-render); it happens between two loop iterations
Drift ==
    /\ pc = "loop"
    /\ indicator = currentPageNumber
    /\ taskResult.totalResultPages > 1
    /\ \E q \in (1..sitePages) \ {indicator} : indicator' = q
    /\ UNCHANGED <<sideVars, task, taskResult, pc, threw, cartStatusBefore, cart, sitePages,
                   pageControls, productExists, siteEmpty, scanVars, visitVars,
                   histVars>>

\* ----------------------------------------------------------- exploreSERP
\* head of the while loop: loop test, getCurrentPageNumber, the comparison,
\* the wait for article.product and the read of allProducts
LoopHead ==
    /\ pc = "loop"
    /\ IF currentPageNumber >
            LoopBound(taskResult.totalResultPages, task.numberPagesToSearch)
       THEN /\ pc' = "afterLoop"
            /\ UNCHANGED <<threw, scanVars, scannedPages, candOnPage>>
       ELSE LET span == GetCurrentPageNumber(taskResult.totalResultPages, indicator) IN
            IF PageMismatch(span, currentPageNumber)
            THEN /\ currentPageSpanValue' = span
                 /\ pc' = "resync"
                 /\ UNCHANGED <<threw, currentPageNumber, nItems, productIndex, product,
                                randomProductActionsToVisit, randomProductIndex,
                                scannedPages, candOnPage>>
            ELSE \/ /\ ~siteEmpty
                    /\ nItems' \in 1..MaxItems
                    /\ product' = EndItem
                    /\ productIndex' = 0
                    /\ randomProductIndex' = 0
                    /\ randomProductActionsToVisit' =
                         RandomActionsForPage(task.randomProductVisitsPerPage,
                                              currentPageNumber)
                    /\ currentPageSpanValue' = span
                    /\ scannedPages' = Append(scannedPages, indicator)
                    /\ candOnPage' = 0
                    /\ pc' = "scan"
                    /\ UNCHANGED <<threw, currentPageNumber>>
                 \/ /\ Abort
                    /\ UNCHANGED <<scanVars, scannedPages, candOnPage>>
    /\ UNCHANGED <<sideVars, task, taskResult, cartStatusBefore, siteVars, visitVars,
                   mainVisits, randomVisits, adVisits, directVisits, visitErrors,
                   resynced, pagingClicked>>

\* the mismatch branch: nextOrPrevPage towards the expected page, continue
Resync ==
    /\ pc = "resync"
    /\ \/ /\ \E r \in 0..(MaxSitePages + 1) :
                NextOrPrevPage(currentPageSpanValue < currentPageNumber, r)
          /\ pc' = "loop"
          /\ resynced' = TRUE
          /\ UNCHANGED threw
       \/ /\ NextOrPrevPageTimesOut
          /\ Abort
          /\ UNCHANGED resynced
    /\ UNCHANGED <<sideVars, task, taskResult, cartStatusBefore, cart, sitePages, pageControls, productExists, siteEmpty,
                   scanVars, visitVars, visitCounts, visitErrors>>

\* visitAndDoHumanActivity is called: the middle click on the product link
StartVisit(kind, id, action) ==
    /\ vKind' = kind
    /\ vId' = id
    /\ vAction' = action
    /\ vResult' = ActionResult(id, currentPageNumber)
    /\ clickCount' = 0
    /\ pc' = "vOpen"
    /\ mainVisits' = mainVisits + (IF kind = "main" THEN 1 ELSE 0)
    /\ randomVisits' = randomVisits + (IF kind = "random" THEN 1 ELSE 0)
    /\ adVisits' = adVisits + (IF product'.sponsored THEN 1 ELSE 0)
    /\ UNCHANGED <<threw, beforeStatus, overlayWorks, productIndex>>

\* body of the for loop: product = allProducts[productIndex] is read and handled
ScanItem ==
    /\ pc = "scan"
    /\ productIndex < nItems
    /\ product' \in Items
    /\ LET kind == Classify(product')
           productId == product'.href[3]
       IN
       CASE kind = "nolink" ->
              \* product.waitForSelector('a') runs into its timeout
              /\ Abort
              /\ UNCHANGED <<taskResult, productIndex, visitVars,
                             candOnPage, mainVisits, randomVisits, adVisits>>
         [] kind = "invalid" ->
              /\ Advance
              /\ UNCHANGED <<taskResult, pc, threw, visitVars, candOnPage,
                             mainVisits, randomVisits, adVisits>>
         [] kind = "adMain" ->
              /\ taskResult' = [taskResult EXCEPT !.isFoundAdvertised = TRUE]
              /\ Advance
              /\ UNCHANGED <<pc, threw, visitVars, candOnPage,
                             mainVisits, randomVisits, adVisits>>
         [] kind = "ad" ->
              /\ Advance
              /\ UNCHANGED <<taskResult, pc, threw, visitVars, candOnPage,
                             mainVisits, randomVisits, adVisits>>
         [] kind = "main" ->
              /\ taskResult' =
                   [taskResult EXCEPT
                      !.mainProductPageActions.foundOnPage = currentPageNumber,
                      !.foundOnPage = currentPageNumber,
                      !.foundId = productId,
                      !.isFoundVariationId = IsVariationId(task.productId, productId),
                      !.foundBySearch = TRUE]
              /\ StartVisit("main", productId, MainAction)
              /\ UNCHANGED candOnPage
         [] OTHER ->
              LET slotsLeft == Len(randomProductActionsToVisit) - randomProductIndex
                  itemsLeft == nItems - productIndex
              IN
              /\ candOnPage' = candOnPage + 1
              /\ UNCHANGED taskResult
              /\ \/ /\ MayVisit(slotsLeft, itemsLeft)
                    /\ StartVisit("random", productId,
                                  randomProductActionsToVisit[randomProductIndex + 1])
                 \/ /\ MaySkip(slotsLeft, itemsLeft)
                    /\ Advance
                    /\ UNCHANGED <<pc, threw, visitVars, mainVisits, randomVisits, adVisits>>
    /\ UNCHANGED <<sideVars, task, cartStatusBefore, siteVars, currentPageNumber,
                   currentPageSpanValue, nItems, randomProductActionsToVisit,
                   randomProductIndex, scannedPages, directVisits, visitErrors,
                   resynced, pagingClicked>>

\* end of the for loop: currentPageNumber = await nextOrPrevPage(mainPage)
ScanEnd ==
    /\ pc = "scan"
    /\ productIndex = nItems
    /\ \/ /\ \E r \in 0..(MaxSitePages + 1) :
                /\ NextOrPrevPage(TRUE, r)
                /\ currentPageNumber' = r
          /\ pc' = "loop"
          /\ resynced' = FALSE
          /\ UNCHANGED threw
       \/ /\ NextOrPrevPageTimesOut
          /\ Abort
          /\ UNCHANGED <<currentPageNumber, resynced>>
    /\ product' = EndItem
    /\ UNCHANGED <<sideVars, task, taskResult, cartStatusBefore, cart, sitePages, pageControls, productExists, siteEmpty,
                   currentPageSpanValue, nItems, productIndex,
                   randomProductActionsToVisit, randomProductIndex, visitVars,
                   visitCounts, visitErrors>>

\* ------------------------------------------------- visitAndDoHumanActivity
\* the new tab is resolved, waitForPageInitLoad, waitSkeletonLoading; these
\* lie outside doProductAction's try, a failure leaves exploreSERP
VisitOpen ==
    /\ pc = "vOpen"
    /\ \/ /\ pc' = "vHuman"
          /\ UNCHANGED threw
       \/ Abort
    /\ UNCHANGED <<sideVars, task, taskResult, cartStatusBefore, siteVars, scanVars,
                   visitVars, histVars>>

\* doProductAction: an exception inside its try block
VisitError ==
    /\ visitErrors < MaxVisitErrors
    /\ visitErrors' = visitErrors + 1
    /\ vResult' = [vResult EXCEPT !.error = TRUE]
    /\ pc' = "vReturn"

\* doProductAction: the human-activity loop, then timeOnPage
DoHumanActivity ==
    /\ pc = "vHuman"
    /\ \/ /\ vResult' = [vResult EXCEPT !.timeOnPageSet = TRUE]
          /\ pc' = "vCartBefore"
          /\ UNCHANGED visitErrors
       \/ VisitError
    /\ UNCHANGED <<sideVars, task, taskResult, threw, cartStatusBefore, siteVars, scanVars,
                   vKind, vId, vAction, beforeStatus, overlayWorks, clickCount,
                   visitCounts, resynced, pagingClicked>>

\* doProductAction: beforeStatus = getCartStatus(), addToCart = {before, false}
VisitCartBefore ==
    /\ pc = "vCartBefore"
    /\ \/ /\ beforeStatus' = CartStatusOf(cart)
          /\ vResult' = [vResult EXCEPT !.addToCart =
                           [set |-> TRUE,
                            before |-> vResult.productId \in CartStatusOf(cart).productIds,
                            after |-> FALSE]]
          /\ IF vAction.addToCart
                THEN /\ pc' = "vClick"
                     /\ overlayWorks' \in BOOLEAN
                ELSE /\ pc' = "vCartAfter"
                     /\ UNCHANGED overlayWorks
          /\ UNCHANGED visitErrors
       \/ /\ VisitError
          /\ UNCHANGED <<beforeStatus, overlayWorks>>
    /\ UNCHANGED <<sideVars, task, taskResult, threw, cartStatusBefore, siteVars, scanVars,
                   vKind, vId, vAction, clickCount, visitCounts, resynced, pagingClicked>>

\* doProductAction: the body of do { cartButton.click(); sleep } while (...)
ClickAddToCart ==
    /\ pc = "vClick"
    /\ clickCount' = Min(clickCount + 1, MaxClicks)
    /\ cart' = IF overlayWorks THEN cart \cup {vId} ELSE cart
    /\ pc' = "vOverlayTest"
    /\ UNCHANGED <<sideVars, task, taskResult, threw, cartStatusBefore, sitePages, pageControls, productExists, siteEmpty,
                   indicator, scanVars, vKind, vId, vAction, vResult,
                   beforeStatus, overlayWorks, histVars>>

\* doProductAction: the while condition (no .add-to-cart-overlay__body yet);
\* a missing overlay is the only reason to click again and the overlay is the
\* only exit of the loop; with the overlay there it is closed
OverlayTest ==
    /\ pc = "vOverlayTest"
    /\ pc' = IF overlayWorks THEN "vCartAfter" ELSE "vClick"
    /\ UNCHANGED <<sideVars, task, taskResult, threw, cartStatusBefore, siteVars, scanVars,
                   visitVars, histVars>>

\* doProductAction: afterStatus = getCartStatus(), addToCart.after
VisitCartAfter ==
    /\ pc = "vCartAfter"
    /\ \/ /\ vResult' = [vResult EXCEPT !.addToCart.after =
                           vResult.productId \in CartStatusOf(cart).productIds]
          /\ pc' = "vReturn"
          /\ UNCHANGED visitErrors
       \/ VisitError
    /\ UNCHANGED <<sideVars, task, taskResult, threw, cartStatusBefore, siteVars, scanVars,
                   vKind, vId, vAction, beforeStatus, overlayWorks, clickCount,
                   visitCounts, resynced, pagingClicked>>

\* the locals of a finished visitAndDoHumanActivity call go out of scope
VisitLocalsDropped ==
    /\ vKind' = "none"
    /\ vId' = ""
    /\ vAction' = ProductAction(FALSE, 0)
    /\ vResult' = ActionResult("", 0)
    /\ beforeStatus' = CartStatusOf({})
    /\ overlayWorks' = FALSE
    /\ clickCount' = 0

\* exploreSERP after visitAndDoHumanActivity returned: for the main product
\* getProductInfo and mainProductPageActions, for a random one the push and
\* randomProductIndex++
VisitReturn ==
    /\ pc = "vReturn"
    /\ IF vKind = "main"
       THEN \/ /\ taskResult' = [taskResult EXCEPT
                                   !.productInfo = [set |-> TRUE, productId |-> vId],
                                   !.mainProductPageActions = vResult]
               /\ Advance
               /\ pc' = "scan"
               /\ UNCHANGED <<threw, randomProductIndex>>
            \/ /\ Abort
               /\ UNCHANGED <<taskResult, productIndex, randomProductIndex>>
       ELSE /\ taskResult' = [taskResult EXCEPT
                                !.otherProducts = Append(taskResult.otherProducts, vResult)]
            /\ randomProductIndex' = randomProductIndex + 1
            /\ Advance
            /\ pc' = "scan"
            /\ UNCHANGED threw
    /\ VisitLocalsDropped
    /\ UNCHANGED <<sideVars, task, cartStatusBefore, siteVars, currentPageNumber,
                   currentPageSpanValue, nItems, product,
                   randomProductActionsToVisit, histVars>>

\* exploreSERP after the loop: the direct visit of the product url
AfterLoop ==
    /\ pc = "afterLoop"
    /\ IF DirectVisitNeeded(taskResult.foundBySearch, task.productInfoOnNotFound)
       THEN /\ directVisits' = directVisits + 1
            /\ \/ \* the product page exists and getProductInfo reads it
                  /\ productExists' = "yes"
                  /\ taskResult' = DirectVisitResult(taskResult,
                                      [set |-> TRUE, productId |-> task.productId])
                  /\ pc' = "cartAfter"
                  /\ UNCHANGED threw
               \/ \* it exists, a wait on the way runs into its timeout
                  /\ productExists' = "yes"
                  /\ Abort
                  /\ UNCHANGED taskResult
               \/ \* no such product: the page has no .rd-title to wait for
                  /\ ~taskResult.isFoundAdvertised
                  /\ productExists' = "no"
                  /\ Abort
                  /\ UNCHANGED taskResult
       ELSE /\ pc' = "cartAfter"
            /\ UNCHANGED <<taskResult, threw, directVisits, productExists>>
    /\ UNCHANGED <<sideVars, task, cartStatusBefore, cart, sitePages, pageControls,
                   siteEmpty, indicator, scanVars, visitVars,
                   scannedPages, candOnPage, mainVisits, randomVisits, adVisits,
                   visitErrors, resynced, pagingClicked>>

\* handle(): the second getCartStatus and the cart fields of the result
HandleFinish ==
    /\ pc = "cartAfter"
    /\ \/ LET cartStatusAfter == CartStatusOf(cart) IN
          /\ taskResult' =
               [taskResult EXCEPT
                  !.cart = CartCounts(cartStatusBefore, cartStatusAfter),
                  !.mainProductPageActions.addToCart =
                      [set |-> TRUE,
                       before |-> task.productId \in cartStatusBefore.productIds,
                       after |-> task.productId \in cartStatusAfter.productIds],
                  !.otherProducts =
                      [i \in 1..Len(taskResult.otherProducts) |->
                         [taskResult.otherProducts[i] EXCEPT !.addToCart =
                            [set |-> TRUE,
                             before |-> taskResult.otherProducts[i].productId
                                          \in cartStatusBefore.productIds,
                             after |-> taskResult.otherProducts[i].productId
                                          \in cartStatusAfter.productIds]]]]
          /\ pc' = "returned"
          /\ UNCHANGED threw
       \/ /\ Abort
          /\ UNCHANGED taskResult
    /\ UNCHANGED <<sideVars, task, cartStatusBefore, siteVars, scanVars, visitVars, histVars>>

Next ==
    \/ HandleOpenMainPage
    \/ HandleCartBefore
    \/ InputSearchFilters
    \/ Drift
    \/ LoopHead
    \/ Resync
    \/ ScanItem
    \/ ScanEnd
    \/ VisitOpen
    \/ DoHumanActivity
    \/ VisitCartBefore
    \/ ClickAddToCart
    \/ OverlayTest
    \/ VisitCartAfter
    \/ VisitReturn
    \/ AfterLoop
    \/ HandleFinish

Spec == Init /\ [][Next]_vars

\* the single thread of control of a run always takes its next step
FairSpec == Spec /\ WF_vars(Next)

\* ------------------------------------------- getCartStatus from the inside
\* a task whose run is not looked at
ParkedTask ==
    [productId |-> TaskProductId, variationIds |-> {}, numberPagesToSearch |-> 1,
     productInfoOnNotFound |-> FALSE, addToCart |-> FALSE,
     minTimeOnPage |-> TaskMinTimeOnPage, randomProductVisitsPerPage |-> <<>>]
RunParked ==
    /\ task = ParkedTask
    /\ pc = "parked"
    /\ RunFieldsInit

CartInit ==
    /\ RunParked
    /\ BrowserIdle
    /\ ExtraIdle
    /\ cartLines \in UNION {[1..n -> CartHrefs] : n \in 0..MaxCartLines}
    /\ cartCounter \in {Len(cartLines), 2 * Len(cartLines)}
    /\ gcsPc = "idle"
    /\ pictureLinks = {}
    /\ totalCount = 0
    /\ productIds = <<>>
    /\ statuses = <<>>
    /\ cartMutated = FALSE

\* getCartStatus up to pictureLinks = $$(...): the empty cart returns at once,
\* a filled one reads the counter and starts one read per picture link
GetCartStatusOpen ==
    /\ gcsPc = "idle"
    /\ Len(statuses) < MaxCalls
    /\ IF cartLines = <<>>
       THEN /\ statuses' = Append(statuses, [totalCount |-> 0, productIds |-> <<>>])
            /\ UNCHANGED <<gcsPc, pictureLinks, totalCount, productIds>>
       ELSE /\ totalCount' = cartCounter
            /\ pictureLinks' = DOMAIN cartLines
            /\ productIds' = <<>>
            /\ gcsPc' = "reading"
            /\ UNCHANGED statuses
    /\ UNCHANGED <<runVars, extraVars, browserVars, cartLines, cartCounter, cartMutated>>

\* one of the concurrent pictureLink.evaluate(...) calls resolves and pushes
LinkRead ==
    /\ gcsPc = "reading"
    /\ \E i \in pictureLinks :
         /\ productIds' = Push(productIds, cartLines[i])
         /\ pictureLinks' = pictureLinks \ {i}
    /\ UNCHANGED <<runVars, extraVars, browserVars, cartLines, cartCounter, gcsPc, totalCount,
                   statuses, cartMutated>>

\* Promise.all is through: the hrefs are mapped to ids, the page is closed
GetCartStatusReturn ==
    /\ gcsPc = "reading"
    /\ pictureLinks = {}
    /\ statuses' = Append(statuses,
                          [totalCount |-> totalCount,
                           productIds |-> [k \in DOMAIN productIds |->
                                             CartLinkId(productIds[k])]])
    /\ gcsPc' = "idle"
    /\ productIds' = <<>>
    /\ totalCount' = 0
    /\ UNCHANGED <<runVars, extraVars, browserVars, cartLines, cartCounter, pictureLinks,
                   cartMutated>>

\* between two calls a product is added to the cart
CartMutation ==
    /\ gcsPc = "idle"
    /\ statuses # <<>>
    /\ ~cartMutated
    /\ Len(cartLines) < MaxCartLines
    /\ \E h \in CartHrefs : cartLines' = Append(cartLines, h)
    /\ cartCounter' = cartCounter + 1
    /\ cartMutated' = TRUE
    /\ UNCHANGED <<runVars, extraVars, browserVars, gcsPc, pictureLinks, totalCount,
                   productIds, statuses>>

CartNext ==
    \/ GetCartStatusOpen
    \/ LinkRead
    \/ GetCartStatusReturn
    \/ CartMutation

CartSpec == CartInit /\ [][CartNext]_vars

\* --------------------------------------- several instances on one browser
BrowserInit ==
    /\ RunParked
    /\ CartPageIdle
    /\ BrowserIdle
    /\ ExtraIdle

\* tabs asked for so far
Asked == created + Cardinality(requested)

\* visitAndDoHumanActivity: the executor registers handleTarget, then the
\* middle click asks the browser for the product tab
VisitClick(i) ==
    /\ bPc[i] = "idle"
    /\ Asked < MaxTargets
    /\ listeners' = listeners \cup {i}
    /\ requested' = requested \cup {[owner |-> i, kind |-> "product", no |-> Asked + 1]}
    /\ bPc' = [bPc EXCEPT ![i] = "awaitTab"]
    /\ UNCHANGED <<runVars, extraVars, cartPageVars, resolved, created>>

\* getCartStatus: cartPage = await this.browser.newPage()
OpenCartPage(i) ==
    /\ bPc[i] = "idle"
    /\ Asked < MaxTargets
    /\ requested' = requested \cup {[owner |-> i, kind |-> "cart", no |-> Asked + 1]}
    /\ bPc' = [bPc EXCEPT ![i] = "awaitCart"]
    /\ UNCHANGED <<runVars, extraVars, cartPageVars, listeners, resolved, created>>

\* the browser creates a tab and emits 'targetcreated': every registered
\* handleTarget sees a target of type 'page', unregisters and resolves with it;
\* newPage() resolves for the one that asked
TargetCreated ==
    /\ \E t \in requested :
         /\ requested' = requested \ {t}
         /\ resolved' = [j \in Instances |-> IF j \in listeners THEN t ELSE resolved[j]]
         /\ bPc' = [j \in Instances |->
                      IF j \in listeners THEN "onPage"
                      ELSE IF t.kind = "cart" /\ t.owner = j THEN "cartPage"
                      ELSE bPc[j]]
    /\ listeners' = {}
    /\ created' = created + 1
    /\ UNCHANGED <<runVars, extraVars, cartPageVars>>

\* doProductAction returned, the product page is closed
LeaveProductPage(i) ==
    /\ bPc[i] = "onPage"
    /\ bPc' = [bPc EXCEPT ![i] = "idle"]
    /\ resolved' = [resolved EXCEPT ![i] = NoTarget]
    /\ UNCHANGED <<runVars, extraVars, cartPageVars, listeners, requested, created>>

\* getCartStatus: await cartPage.close()
CloseCartPage(i) ==
    /\ bPc[i] = "cartPage"
    /\ bPc' = [bPc EXCEPT ![i] = "idle"]
    /\ UNCHANGED <<runVars, extraVars, cartPageVars, listeners, requested, resolved, created>>

BrowserNext ==
    \/ \E i \in Instances : VisitClick(i)
    \/ \E i \in Instances : OpenCartPage(i)
    \/ TargetCreated
    \/ \E i \in Instances : LeaveProductPage(i)
    \/ \E i \in Instances : CloseCartPage(i)

BrowserSpec == BrowserInit /\ [][BrowserNext]_vars

\* ------------------------------------------ inputSearchFilters from inside
\* The task gives a keyword and may give price limits; the site decides what
\* the fields hold when they are read back, which element wins the race for
\* the result header and what the header and the page-index control say.
FiltersInit ==
    /\ RunParked
    /\ CartPageIdle
    /\ BrowserIdle
    /\ PagesIdle
    /\ ActivityIdle
    /\ ParseIdle
    /\ wantPrice \in BOOLEAN
    /\ applyCount = 0
    /\ keywordEcho = TRUE
    /\ priceEcho = TRUE
    /\ mismatchLogged = FALSE
    /\ emptyWon = FALSE
    /\ countText = <<>>
    /\ pageControlCount = 0
    /\ lastPageLabel = <<>>
    /\ fResultItems = Undefined
    /\ fResultPages = Undefined
    /\ fPc = "type"

\* the keyword and the price limits are typed and submitted
TypeFilters ==
    /\ fPc = "type"
    /\ applyCount' = applyCount + 1
    /\ \E k \in BOOLEAN, e \in BOOLEAN :
         /\ keywordEcho' = k
         /\ priceEcho' = IF wantPrice THEN e ELSE TRUE
    /\ fPc' = "validate"
    /\ UNCHANGED <<runVars, lateVars, cartPageVars, browserVars, pagesVars, wantPrice, mismatchLogged,
                   emptyWon, countText, pageControlCount, lastPageLabel,
                   fResultItems, fResultPages>>

\* the fields are read back and compared; a difference is logged
ValidateFilters ==
    /\ fPc = "validate"
    /\ mismatchLogged' = (~keywordEcho \/ (wantPrice /\ ~priceEcho))
    /\ fPc' = "race"
    /\ UNCHANGED <<runVars, lateVars, cartPageVars, browserVars, pagesVars, wantPrice, applyCount,
                   keywordEcho, priceEcho, emptyWon, countText, pageControlCount,
                   lastPageLabel, fResultItems, fResultPages>>

\* Locator.race: the product count with a non-blank text, or the notification
SearchRace ==
    /\ fPc = "race"
    /\ \E e \in BOOLEAN, t \in Texts :
         /\ ~e => Trim(t) # <<>>
         /\ emptyWon' = e
         /\ countText' = t
    /\ fPc' = "summary"
    /\ UNCHANGED <<runVars, lateVars, cartPageVars, browserVars, pagesVars, wantPrice, applyCount,
                   keywordEcho, priceEcho, mismatchLogged, pageControlCount,
                   lastPageLabel, fResultItems, fResultPages>>

\* the totals are read from the winner and from the page-index control
ReadSummary ==
    /\ fPc = "summary"
    /\ IF SearchInputHasEmptyClass(emptyWon)
       THEN /\ fResultItems' = Zero
            /\ fResultPages' = Zero
            /\ UNCHANGED <<pageControlCount, lastPageLabel>>
       ELSE \E n \in 0..MaxSitePages, l \in Labels :
              /\ pageControlCount' = n
              /\ lastPageLabel' = IF n = 0 THEN <<>> ELSE l
              /\ fResultItems' = TotalResultItemsOf(countText)
              /\ fResultPages' = TotalResultPagesOf(n, lastPageLabel')
    /\ fPc' = "done"
    /\ UNCHANGED <<runVars, lateVars, cartPageVars, browserVars, pagesVars, wantPrice, applyCount,
                   keywordEcho, priceEcho, mismatchLogged, emptyWon, countText>>

\* any of the waits of inputSearchFilters runs into its timeout
FilterWaitTimesOut ==
    /\ fPc \in {"type", "validate", "race", "summary"}
    /\ fPc' = "failed"
    /\ UNCHANGED <<runVars, lateVars, cartPageVars, browserVars, pagesVars, wantPrice, applyCount,
                   keywordEcho, priceEcho, mismatchLogged, emptyWon, countText,
                   pageControlCount, lastPageLabel, fResultItems, fResultPages>>

FiltersNext ==
    \/ TypeFilters
    \/ ValidateFilters
    \/ SearchRace
    \/ ReadSummary
    \/ FilterWaitTimesOut
FiltersSpec == FiltersInit /\ [][FiltersNext]_vars

\* -------------------------------------------- browsing contexts of one run
MaxPageVisits == 2
PagesInit ==
    /\ RunParked
    /\ CartPageIdle
    /\ BrowserIdle
    /\ FiltersIdle
    /\ ActivityIdle
    /\ ParseIdle
    /\ hPc = "start"
    /\ PagesFieldsInit

\* the operations of the main task that act on the main page
MainPageOperations == {"profile", "filters", "serp"}

\* waitForPageInitLoad(page) is entered; ret is where its caller goes on
EnterGate(page, ret) ==
    /\ hPc' = "gate"
    /\ gatePage' = page
    /\ gateRet' = ret
    /\ firstMarker' = "none"
    /\ reloads' = 0
    /\ afterReload' = "none"
    /\ gateReturned' = FALSE

\* the page in the foreground once a page that may have been there is gone:
\* the browser's choice among the pages still open
FrontAfterClose(current, gone, remaining) ==
    IF current # gone THEN {current}
    ELSE IF remaining = {} THEN {"none"}
    ELSE remaining
\* exploreSERP: mainPage.bringToFront() after a visit
FrontLeftAlone(current) == current
FrontAfterVisit(current) == "main"

\* handle: browser.newPage(), goto and the first readiness wait, before try
OpenMainPage ==
    /\ hPc = "start"
    /\ openPages' = openPages \cup {"main"}
    /\ EnterGate("main", "cookie")
    /\ front' = "main"
    /\ UNCHANGED <<runVars, lateVars, cartPageVars, browserVars, filterVars, hThrew, closing,
                   inVisitTry, cartRet, visitsDone, cookieVars>>

\* waitForPageInitLoad: the race of the site logo and the challenge title;
\* the logo ends the call, the challenge leads to the reload
GateRace ==
    /\ hPc = "gate"
    /\ \E m \in {"logo", "challenge"} :
         /\ firstMarker' = m
         /\ IF m = "logo"
            THEN hPc' = gateRet /\ gateReturned' = TRUE
            ELSE hPc' = "reload" /\ gateReturned' = FALSE
    /\ UNCHANGED front
    /\ UNCHANGED <<runVars, lateVars, cartPageVars, browserVars, filterVars, hThrew, openPages,
                   closing, gatePage, gateRet, reloads, afterReload, inVisitTry,
                   cartRet, visitsDone, cookieVars>>

\* waitForPageInitLoad: page.reload() resolves on the load event and the call
\* returns, whatever the reloaded page shows
GateReload ==
    /\ hPc = "reload"
    /\ reloads' = reloads + 1
    /\ afterReload' \in {"logo", "challenge", "none"}
    /\ gateReturned' = TRUE
    /\ hPc' = gateRet
    /\ UNCHANGED front
    /\ UNCHANGED <<runVars, lateVars, cartPageVars, browserVars, filterVars, hThrew, openPages,
                   closing, gatePage, gateRet, firstMarker, inVisitTry, cartRet,
                   visitsDone, cookieVars>>

\* handle: hideCookieAlertIfItAppears(mainPage) is called and not awaited
StartCookieHandler ==
    /\ hPc = "cookie"
    /\ cookie' = "waiting"
    /\ hPc' = "profile"
    /\ UNCHANGED front
    /\ UNCHANGED <<runVars, lateVars, cartPageVars, browserVars, filterVars, hThrew, openPages,
                   closing, gateVars, inVisitTry, cartRet, visitsDone, clickDuring>>

\* the handler: the accept button has appeared and is clicked on the main
\* page, while the main task is wherever it is
CookieClick ==
    /\ cookie = "waiting"
    /\ "main" \in openPages
    /\ cookie' = "clicked"
    /\ clickDuring' = hPc
    /\ UNCHANGED front
    /\ UNCHANGED <<runVars, lateVars, cartPageVars, browserVars, filterVars, hPc, hThrew,
                   openPages, closing, gateVars, inVisitTry, cartRet, visitsDone>>

\* the handler: the wait for the button is rejected (timeout, page closed)
CookieGiveUp ==
    /\ cookie = "waiting"
    /\ cookie' = "gaveUp"
    /\ UNCHANGED front
    /\ UNCHANGED <<runVars, lateVars, cartPageVars, browserVars, filterVars, hPc, hThrew,
                   openPages, closing, gateVars, inVisitTry, cartRet, visitsDone,
                   clickDuring>>

\* handle: checkProfile(mainPage) has finished
CheckProfile ==
    /\ hPc = "profile"
    /\ hPc' = "cartBefore"
    /\ UNCHANGED front
    /\ UNCHANGED <<runVars, lateVars, cartPageVars, browserVars, filterVars, hThrew, openPages,
                   closing, gateVars, inVisitTry, cartRet, visitsDone, cookieVars>>

\* getCartStatus: browser.newPage(), goto and the readiness wait; called by
\* handle before the search and after it, and by doProductAction inside its try
OpenCart ==
    /\ hPc \in {"cartBefore", "action", "cartAfter"}
    /\ openPages' = openPages \cup {"cart"}
    /\ inVisitTry' = (hPc = "action")
    /\ cartRet' = CASE hPc = "cartBefore" -> "filters"
                     [] hPc = "action" -> "info"
                     [] OTHER -> "closeMain"
    /\ EnterGate("cart", "cartRead")
    /\ front' = "cart"
    /\ UNCHANGED <<runVars, lateVars, cartPageVars, browserVars, filterVars, hThrew, closing,
                   visitsDone, cookieVars>>

\* getCartStatus: the cart is read and cartPage.close() is awaited
ReadCartAndClose ==
    /\ hPc = "cartRead"
    /\ openPages' = openPages \ {"cart"}
    /\ hPc' = cartRet
    /\ inVisitTry' = FALSE
    /\ front' \in FrontAfterClose(front, "cart", openPages')
    /\ UNCHANGED <<runVars, lateVars, cartPageVars, browserVars, filterVars, hThrew, closing,
                   gateVars, cartRet, visitsDone, cookieVars>>

\* handle: inputSearchFilters(mainPage) has finished
InputFilters ==
    /\ hPc = "filters"
    /\ hPc' = "serp"
    /\ UNCHANGED front
    /\ UNCHANGED <<runVars, lateVars, cartPageVars, browserVars, filterVars, hThrew, openPages,
                   closing, gateVars, inVisitTry, cartRet, visitsDone, cookieVars>>

\* visitAndDoHumanActivity: the middle click opens the product page and its
\* readiness is awaited
OpenProductPage ==
    /\ hPc = "serp"
    /\ visitsDone < MaxPageVisits
    /\ visitsDone' = visitsDone + 1
    /\ openPages' = openPages \cup {"product"}
    /\ EnterGate("product", "action")
    /\ front' = "product"
    /\ UNCHANGED <<runVars, lateVars, cartPageVars, browserVars, filterVars, hThrew, closing,
                   inVisitTry, cartRet, cookieVars>>

\* doProductAction without the add-to-cart part
ActionWithoutCart ==
    /\ hPc = "action"
    /\ hPc' = "info"
    /\ UNCHANGED front
    /\ UNCHANGED <<runVars, lateVars, cartPageVars, browserVars, filterVars, hThrew, openPages,
                   closing, gateVars, inVisitTry, cartRet, visitsDone, cookieVars>>

\* exploreSERP: getProductInfo for a main visit, mainPage.bringToFront() and
\* the awaited productPage.close()
CloseProductPage ==
    /\ hPc = "info"
    /\ openPages' = openPages \ {"product"}
    /\ hPc' = "serp"
    /\ front' = FrontAfterVisit(front)
    /\ UNCHANGED <<runVars, lateVars, cartPageVars, browserVars, filterVars, hThrew, closing,
                   gateVars, inVisitTry, cartRet, visitsDone, cookieVars>>

\* exploreSERP: the loop is over; the direct visit follows or not
LeaveSERP ==
    /\ hPc = "serp"
    /\ hPc' \in {"direct", "cartAfter"}
    /\ UNCHANGED front
    /\ UNCHANGED <<runVars, lateVars, cartPageVars, browserVars, filterVars, hThrew, openPages,
                   closing, gateVars, inVisitTry, cartRet, visitsDone, cookieVars>>

\* exploreSERP: browser.newPage() and goto for the direct visit
OpenDirectPage ==
    /\ hPc = "direct"
    /\ openPages' = openPages \cup {"direct"}
    /\ EnterGate("direct", "directInfo")
    /\ front' = "direct"
    /\ UNCHANGED <<runVars, lateVars, cartPageVars, browserVars, filterVars, hThrew, closing,
                   inVisitTry, cartRet, visitsDone, cookieVars>>

\* exploreSERP: getProductInfo, then productPage.close() without await
DirectInfoAndClose ==
    /\ hPc = "directInfo"
    /\ closing' = closing \cup {"direct"}
    /\ hPc' = "cartAfter"
    /\ UNCHANGED front
    /\ UNCHANGED <<runVars, lateVars, cartPageVars, browserVars, filterVars, hThrew, openPages,
                   gateVars, inVisitTry, cartRet, visitsDone, cookieVars>>

\* a close() that was not awaited completes
PendingCloseCompletes ==
    /\ \E c \in closing :
         /\ closing' = closing \ {c}
         /\ openPages' = openPages \ {c}
         /\ front' \in FrontAfterClose(front, c, openPages')
    /\ UNCHANGED <<runVars, lateVars, cartPageVars, browserVars, filterVars, hPc, hThrew,
                   gateVars, inVisitTry, cartRet, visitsDone, cookieVars>>

\* handle: the awaited mainPage.close() at the end of the try block
CloseMainPage ==
    /\ hPc = "closeMain"
    /\ openPages' = openPages \ {"main"}
    /\ hPc' = "returned"
    /\ front' \in FrontAfterClose(front, "main", openPages')
    /\ UNCHANGED <<runVars, lateVars, cartPageVars, browserVars, filterVars, hThrew, closing,
                   gateVars, inVisitTry, cartRet, visitsDone, cookieVars>>

\* an awaited step is rejected (a wait runs into its timeout): before the
\* try of handle the call is rejected, inside doProductAction's try the visit
\* goes on after the catch, everywhere else handle's catch ends the run;
\* none of the catch blocks closes a page
WhereThrown ==
    IF gatePage = "main" /\ hPc \in {"gate", "reload"} THEN "crashed"
    ELSE IF inVisitTry THEN "info"
    ELSE "returned"
StepFails ==
    /\ hPc \in {"gate", "reload", "profile", "cartRead", "filters", "serp",
                 "action", "info", "directInfo"}
    /\ hPc' = WhereThrown
    /\ hThrew' = (WhereThrown = "returned")
    /\ inVisitTry' = FALSE
    /\ UNCHANGED front
    /\ UNCHANGED <<runVars, lateVars, cartPageVars, browserVars, filterVars, openPages,
                   closing, gateVars, cartRet, visitsDone, cookieVars>>

PagesNext ==
    \/ OpenMainPage
    \/ GateRace
    \/ GateReload
    \/ StartCookieHandler
    \/ CookieClick
    \/ CookieGiveUp
    \/ CheckProfile
    \/ OpenCart
    \/ ReadCartAndClose
    \/ InputFilters
    \/ OpenProductPage
    \/ ActionWithoutCart
    \/ CloseProductPage
    \/ LeaveSERP
    \/ OpenDirectPage
    \/ DirectInfoAndClose
    \/ PendingCloseCompletes
    \/ CloseMainPage
    \/ StepFails
PagesSpec == PagesInit /\ [][PagesNext]_vars

\* ------------------------------- the human-activity loop of doProductAction
\* Times are milliseconds as performance.now() gives them; one activity
\* (a round of mouse moves with its pauses) takes one of a few durations.
MaxMinTime == 2
MsPerSecond == 1000
ActivityDurations == {400, 700, 1500}
TimeOnPageOf(current, start) == (current - start) \div MsPerSecond

ActivityInit ==
    /\ RunParked
    /\ CartPageIdle
    /\ BrowserIdle
    /\ FiltersIdle
    /\ PagesIdle
    /\ ParseIdle
    /\ actMinTime \in 0..MaxMinTime
    /\ clockNow \in {0, 250}
    /\ startTime = 0
    /\ currentTime = 0
    /\ actTimeOnPage = -1
    /\ aPc = "start"

\* const startTime = performance.now()
StartLoop ==
    /\ aPc = "start"
    /\ startTime' = clockNow
    /\ aPc' = "iter"
    /\ UNCHANGED <<runVars, cartPageVars, browserVars, filterVars, pagesVars, parseVars,
                   actMinTime, clockNow, currentTime, actTimeOnPage>>

\* do { currentTime = performance.now(); ...
BeginIteration ==
    /\ aPc = "iter"
    /\ currentTime' = clockNow
    /\ aPc' = "activity"
    /\ UNCHANGED <<runVars, cartPageVars, browserVars, filterVars, pagesVars, parseVars,
                   actMinTime, clockNow, startTime, actTimeOnPage>>

\* ... await this.moveAroundElementBoxOnProductPage(...) takes its time
Activity ==
    /\ aPc = "activity"
    /\ \E d \in ActivityDurations : clockNow' = clockNow + d
    /\ aPc' = "test"
    /\ UNCHANGED <<runVars, cartPageVars, browserVars, filterVars, pagesVars, parseVars,
                   actMinTime, startTime, currentTime, actTimeOnPage>>

\* ... } while (currentTime - startTime < minTimeOnPage * 1000), then
\* timeOnPage = Math.floor((currentTime - startTime) / 1000)
LoopTest ==
    /\ aPc = "test"
    /\ IF currentTime - startTime < actMinTime * MsPerSecond
       THEN /\ aPc' = "iter"
            /\ UNCHANGED actTimeOnPage
       ELSE /\ aPc' = "done"
            /\ actTimeOnPage' = TimeOnPageOf(currentTime, startTime)
    /\ UNCHANGED <<runVars, cartPageVars, browserVars, filterVars, pagesVars, parseVars,
                   actMinTime, clockNow, startTime, currentTime>>

\* an activity throws; doProductAction's catch leaves timeOnPage unset
ActivityFails ==
    /\ aPc = "activity"
    /\ aPc' = "failed"
    /\ UNCHANGED <<runVars, cartPageVars, browserVars, filterVars, pagesVars, parseVars,
                   actMinTime, clockNow, startTime, currentTime, actTimeOnPage>>

ActivityNext ==
    \/ StartLoop
    \/ BeginIteration
    \/ Activity
    \/ LoopTest
    \/ ActivityFails
ActivitySpec == ActivityInit /\ [][ActivityNext]_vars

\* ------------------------------------------- localized figures and parsing
\* A figure is written as a leading group of digits, groups of three digits
\* each preceded by the thousands separator '.', and for a price a decimal
\* comma with decimals and the blank and euro sign after it; an item count
\* may end in '+'.  One character is one string; "euro" is the euro sign.
MaxGroups == 2
HeadGroups == {<<"1">>, <<"1", "0">>}
ThousandGroups == {<<"0", "0", "0">>, <<"0", "1", "0">>, <<"1", "0", "1">>}
GroupSeqs == UNION {[1..k -> ThousandGroups] : k \in 0..MaxGroups}
RECURSIVE Concat(_)
Concat(gs) == IF gs = <<>> THEN <<>> ELSE Head(gs) \o Concat(Tail(gs))
RECURSIVE WithSeparators(_)
WithSeparators(gs) ==
    IF gs = <<>> THEN <<>> ELSE <<".">> \o Head(gs) \o WithSeparators(Tail(gs))
PriceText(h, gs, d) ==
    h \o WithSeparators(gs) \o (IF d = <<>> THEN <<>> ELSE <<",">> \o d)
      \o <<" ", "euro">>
CountText(h, gs, plus) ==
    h \o WithSeparators(gs) \o (IF plus THEN <<"+">> ELSE <<>>)

\* the literal of the third replace in getProductInfo: three characters,
\* a with circumflex, low quotation mark, not sign
CurrencyLiteral == <<"a-circumflex", "low-quote", "not-sign">>
\* String.prototype.replace(c, r) for a one-character pattern c
RECURSIVE ReplaceFirstBy(_, _, _)
ReplaceFirstBy(s, c, r) ==
    IF s = <<>> THEN <<>>
    ELSE IF Head(s) = c THEN r \o Tail(s)
    ELSE <<Head(s)>> \o ReplaceFirstBy(Tail(s), c, r)
\* String.prototype.replace(sub, '') for a pattern of several characters
RemoveFirstString(s, sub) ==
    LET at == {i \in 1..(Len(s) - Len(sub) + 1) : SubSeq(s, i, i + Len(sub) - 1) = sub}
    IN  IF at = {} THEN s
        ELSE LET i == CHOOSE j \in at : \A k \in at : j <= k
             IN  SubSeq(s, 1, i - 1) \o SubSeq(s, i + Len(sub), Len(s))
\* getProductInfo: productInfo.price
PriceOf(text) ==
    JsNumber(Trim(RemoveFirstString(
        ReplaceFirstBy(ReplaceFirst(text, "."), ",", <<".">>), CurrencyLiteral)))

ParseInit ==
    /\ RunParked
    /\ CartPageIdle
    /\ BrowserIdle
    /\ FiltersIdle
    /\ PagesIdle
    /\ ActivityIdle
    /\ figParsed = Undefined
    /\ qPc = "read"
    /\ \E h \in HeadGroups, gs \in GroupSeqs :
         \/ \E d \in {<<>>, <<"0", "1">>, <<"1">>} :
              /\ figKind = "price"
              /\ figText = PriceText(h, gs, d)
              /\ figWritten = Decimal(h \o Concat(gs), d)
         \/ \E plus \in BOOLEAN :
              /\ figKind = "count"
              /\ figText = CountText(h, gs, plus)
              /\ figWritten = Num(h \o Concat(gs))

\* getProductInfo reads the price text
ParsePrice ==
    /\ qPc = "read"
    /\ figKind = "price"
    /\ figParsed' = PriceOf(figText)
    /\ qPc' = "parsed"
    /\ UNCHANGED <<runVars, cartPageVars, browserVars, filterVars, pagesVars,
                   activityVars, figKind, figText, figWritten>>

\* inputSearchFilters reads the item-count text
ParseCount ==
    /\ qPc = "read"
    /\ figKind = "count"
    /\ figParsed' = TotalResultItemsOf(figText)
    /\ qPc' = "parsed"
    /\ UNCHANGED <<runVars, cartPageVars, browserVars, filterVars, pagesVars,
                   activityVars, figKind, figText, figWritten>>

ParseNext ==
    \/ ParsePrice
    \/ ParseCount
ParseSpec == ParseInit /\ [][ParseNext]_vars

\* =================================================================== claims
\* a step of the for loop body is about to read allProducts[productIndex]
ScanStep == pc = "scan" /\ productIndex < nItems
\* the listed item has a product link of the form /product/<id>
HasProductId(item) ==
    /\ item.hasLink
    /\ Len(item.href) = 3
    /\ item.href[1] = ""
    /\ item.href[2] = "product"
\* the item's identifier is the task's productId or one of its variationIds
MatchesMain(item) ==
    /\ HasProductId(item)
    /\ item.href[3] \in ({task.productId} \cup task.variationIds)
\* pages the task and the site allow to be searched
SearchBound ==
    IF taskResult.totalResultPages < task.numberPagesToSearch
    THEN taskResult.totalResultPages
    ELSE task.numberPagesToSearch
InVisit ==
    pc \in {"vOpen", "vHuman", "vCartBefore", "vClick", "vOverlayTest", "vCartAfter", "vReturn"}

\* C1: a listed item that carries the sponsored label and whose identifier is
\* the main product id or a variation id never sets foundBySearch and never
\* starts a visit; the step that handles it sets isFoundAdvertised and the
\* scan goes on with the next item.
C1_AdvertisedMainNotFound ==
    [][(ScanStep /\ MatchesMain(product') /\ product'.sponsored)
         => /\ taskResult'.foundBySearch = taskResult.foundBySearch
            /\ taskResult'.isFoundAdvertised
            /\ mainVisits' = mainVisits
            /\ randomVisits' = randomVisits
            /\ pc' = "scan"
            /\ productIndex' = productIndex + 1]_vars
C1_Witness ==
    /\ pc = "scan"
    /\ productIndex >= 1
    /\ MatchesMain(product)
    /\ product.sponsored
    /\ taskResult.isFoundAdvertised
    /\ ~taskResult.foundBySearch
    /\ mainVisits = 0

C3_MainVisitedAtMostOnce == mainVisits <= 1

\* C4: items of the expected page n are read and visited only while the
\* current-page indicator, as read at the head of the iteration, is exactly n;
\* on a disagreement the run takes one paging step towards n (next if the
\* indicator is lower, prev if it is higher) and checks again before it reads
\* any item.
C4_ScanOnlyOnExpectedPage ==
    /\ []((pc = "scan" \/ InVisit) =>
            /\ currentPageSpanValue = currentPageNumber
            /\ indicator = currentPageNumber)
    /\ [][(pc = "loop" /\ currentPageNumber <= SearchBound
                       /\ indicator # currentPageNumber)
            => (pc' \in {"resync", "returned"} /\ scannedPages' = scannedPages)]_vars
    /\ [][pc = "resync"
            => /\ scannedPages' = scannedPages
               /\ \/ /\ pc' = "loop"
                     /\ indicator' = IF indicator < currentPageNumber
                                     THEN indicator + 1 ELSE indicator - 1
                  \/ /\ pc' = "returned"
                     /\ threw'
                     /\ indicator' = indicator]_vars
C4_Witness ==
    /\ pc = "scan"
    /\ resynced
    /\ productIndex >= 1
    /\ currentPageNumber = 2
    /\ indicator = 2

\* C5: when the items of a page have all been handled, the number of random
\* visits made on the page equals min(R, L), R the random-visit actions
\* configured for the page and L the page's candidates (valid link, not
\* sponsored, not main).
C5_SampledCountIsMin ==
    (pc = "scan" /\ productIndex = nItems) =>
        randomProductIndex =
            (IF Len(randomProductActionsToVisit) < candOnPage
             THEN Len(randomProductActionsToVisit) ELSE candOnPage)

\* C6: a sponsored item that is not the main product is never visited and
\* never appended to otherProducts, however many random-visit actions remain.
C6_AdvertisedOtherSkipped ==
    [][(ScanStep /\ HasProductId(product') /\ product'.sponsored /\ ~MatchesMain(product'))
         => /\ taskResult' = taskResult
            /\ mainVisits' = mainVisits
            /\ randomVisits' = randomVisits
            /\ randomProductIndex' = randomProductIndex
            /\ pc' = "scan"
            /\ productIndex' = productIndex + 1]_vars
C6_Witness ==
    /\ pc = "scan"
    /\ productIndex = nItems
    /\ HasProductId(product)
    /\ product.sponsored
    /\ ~MatchesMain(product)
    /\ Len(randomProductActionsToVisit) > randomProductIndex
    /\ randomVisits = 0
    /\ taskResult.otherProducts = <<>>

\* C7: with totalResultPages >= 1 and every paging click followed by the
\* indicator, the loop enumerates the pages 1, 2, ... in this order, each
\* once, never one beyond min(totalResultPages, numberPagesToSearch), and it
\* is left only after the last page within that bound has been enumerated.
C7_PagesScanned ==
    /\ \A i \in 1..Len(scannedPages) : scannedPages[i] = i
    /\ pc \notin {"start", "actions", "filters"} => Len(scannedPages) <= SearchBound
    /\ (pc \in {"afterLoop", "cartAfter"} \/ (pc = "returned" /\ ~threw))
          => Len(scannedPages) = SearchBound
    /\ (pc = "loop" /\ Len(scannedPages) = SearchBound) => currentPageNumber > SearchBound
C7_Witness ==
    /\ pc = "afterLoop"
    /\ scannedPages = <<1, 2>>
    /\ taskResult.totalResultPages = 3

\* C8: if no unsponsored main item was met on the searched pages and
\* productInfoOnNotFound is true, the returned result has foundBySearch =
\* false, the direct visit was made, productInfo is set and
\* mainProductPageActions.addToCart is absent.
C8_NotFoundResult ==
    (pc = "returned" /\ ~threw /\ mainVisits = 0 /\ task.productInfoOnNotFound) =>
        /\ ~taskResult.foundBySearch
        /\ directVisits = 1
        /\ taskResult.productInfo.set
        /\ ~taskResult.mainProductPageActions.addToCart.set

\* C9: the direct visit of the product url is made only when the search ended
\* with foundBySearch = false and the task's productInfoOnNotFound is true.
C9_DirectVisitOnlyWhenConfigured ==
    directVisits > 0 => (~taskResult.foundBySearch /\ task.productInfoOnNotFound)

\* C10: a visit with addToCart = true on which the overlay never appears stops
\* clicking after a bounded number of retries and ends with an error recorded
\* on the visit's result.
C10_ClickLoopEnds ==
    (pc = "vClick" /\ ~overlayWorks) ~> (pc = "vReturn" /\ vResult.error)

\* C11: the addToCart pair of every visit result (main and each entry of
\* otherProducts) in the returned result is the pair measured by that visit's
\* own two cart snapshots; handle() does not replace it by a value taken from
\* other snapshots.
C11_VisitSnapshotsKept ==
    [][(pc = "cartAfter" /\ pc' = "returned" /\ ~threw')
         => /\ taskResult'.mainProductPageActions.addToCart =
                 taskResult.mainProductPageActions.addToCart
            /\ Len(taskResult'.otherProducts) = Len(taskResult.otherProducts)
            /\ \A i \in 1..Len(taskResult.otherProducts) :
                 taskResult'.otherProducts[i].addToCart =
                     taskResult.otherProducts[i].addToCart]_vars

\* C12: a failure at any step of a product visit (opening the product page,
\* the readiness waits, the human-activity loop, add-to-cart, the cart
\* snapshots) stays inside the visit: it never reaches handle()'s catch and
\* the run is not aborted by it.
C12_VisitFailureContained ==
    [][(InVisit /\ pc # "vReturn") => ~threw']_vars

\* C13: when a step needed to continue fails (such as the main entry page
\* never becoming ready), handle() still returns the result populated so far:
\* no failure makes handle() end without returning a result.
C13_AbortStillReturns == pc # "crashed"

\* C14: getCartStatus calls with no change of the cart between them return the
\* same totalCount and the same set of product identifiers, in whatever order
\* the concurrent link reads of each call complete.
C14_CartStatusIdempotent ==
    ~cartMutated =>
        \A i, j \in DOMAIN statuses :
            /\ statuses[i].totalCount = statuses[j].totalCount
            /\ Range(statuses[i].productIds) = Range(statuses[j].productIds)
C14_Witness ==
    /\ Len(statuses) = 2
    /\ ~cartMutated
    /\ Len(statuses[1].productIds) >= 2
    /\ statuses[1].productIds # statuses[2].productIds

\* C15: with several instances on one browser, the page resolved inside
\* visitAndDoHumanActivity is always the tab opened by that instance's own
\* click, never a tab created for another instance or for a cart view.
C15_OwnProductPage ==
    \A i \in Instances :
        bPc[i] = "onPage" => (resolved[i].owner = i /\ resolved[i].kind = "product")

\* the filters were applied and the result summary was read
AfterFilters ==
    \/ pc \in {"loop", "resync", "scan", "afterLoop", "cartAfter"}
    \/ InVisit
    \/ (pc = "returned" /\ ~threw)

\* C16: when the result page renders no page-index control, totalResultPages is
\* 1, no paging control is clicked in the whole run and page 1 is the only
\* page scanned.
C16_SinglePageNoPaging ==
    (AfterFilters /\ pageControls = 0) =>
        /\ taskResult.totalResultPages = 1
        /\ ~pagingClicked
        /\ scannedPages \in {<<>>, <<1>>}
        /\ (pc \in {"afterLoop", "cartAfter", "returned"} => scannedPages = <<1>>)
C16_Witness ==
    /\ pc = "returned"
    /\ ~threw
    /\ pageControls = 0
    /\ task.numberPagesToSearch = 2
    /\ scannedPages = <<1>>
    /\ ~pagingClicked

C18_OutcomesDistinct ==
    (pc = "afterLoop" /\ ~taskResult.foundBySearch) =>
        ~(/\ ENABLED (AfterLoop /\ productExists' = "no"
                                /\ pc' = "returned" /\ taskResult' = taskResult)
          /\ ENABLED (AfterLoop /\ productExists' = "yes"
                                /\ pc' = "returned" /\ taskResult' = taskResult))

\* C19: the run-level snapshot "before" is taken before the filters are
\* applied and before any visit, the snapshot "after" is taken after the last
\* visit (the direct one included), and a completed run returns the item
\* counts of exactly these two snapshots.
C19_RunLevelSnapshots ==
    /\ [][cartStatusBefore' # cartStatusBefore
            => /\ pc = "actions"
               /\ taskResult.totalResultPages = 0
               /\ mainVisits + randomVisits + directVisits = 0
               /\ cartStatusBefore'.totalCount = Cardinality(cart)]_vars
    /\ [][taskResult'.cart # taskResult.cart
            => /\ pc = "cartAfter"
               /\ pc' = "returned"
               /\ taskResult'.cart.itemsCountBefore = cartStatusBefore.totalCount
               /\ taskResult'.cart.itemsCountAfter = Cardinality(cart)]_vars
    /\ [][(pc \in {"cartAfter", "returned"})
            => /\ cart' = cart
               /\ mainVisits' = mainVisits
               /\ randomVisits' = randomVisits
               /\ directVisits' = directVisits]_vars
    /\ []((pc = "returned" /\ ~threw)
            => /\ taskResult.cart.itemsCountBefore = Cardinality(InitialCart)
               /\ taskResult.cart.itemsCountAfter = Cardinality(cart))
C19_Witness ==
    /\ pc = "returned"
    /\ ~threw
    /\ directVisits = 1
    /\ randomVisits >= 1
    /\ taskResult.cart.itemsCountBefore = 1
    /\ taskResult.cart.itemsCountAfter = 2

\* C20 as stated: every return of nextOrPrevPage follows a click on the paging
\* control and hands back a page number the indicator has reported.
C20_ReturnsReportedPage ==
    [][(pc = "scan" /\ pc' = "loop")
         => /\ pagingClicked'
            /\ currentPageNumber' = indicator']_vars

\* C20 amended: with totalResultPages # 1, nextOrPrevPage clicks the paging
\* control and returns n + 1 (n - 1) only with the indicator showing exactly
\* that number; with totalResultPages = 1 it returns 2 (0) at once, without a
\* click and without looking at the indicator.
C20_ReturnsReportedPageUnlessSingle ==
    /\ [][(pc = "scan" /\ pc' = "loop")
            => IF taskResult.totalResultPages # 1
               THEN /\ pagingClicked'
                    /\ indicator' = indicator + 1
                    /\ currentPageNumber' = indicator'
               ELSE /\ pagingClicked' = pagingClicked
                    /\ indicator' = indicator
                    /\ currentPageNumber' = 2]_vars
    /\ [][(pc = "resync" /\ pc' = "loop")
            => /\ taskResult.totalResultPages # 1
               /\ pagingClicked'
               /\ indicator' = IF indicator < currentPageNumber
                               THEN indicator + 1 ELSE indicator - 1]_vars
C20_Witness ==
    /\ pc = "loop"
    /\ pagingClicked
    /\ ~resynced
    /\ taskResult.totalResultPages = 3
    /\ currentPageNumber = 2
    /\ indicator = 2

\* C23: when the search ends in the empty-result state, inputSearchFilters
\* records totalResultPages = 0 and exploreSERP scans no page.
C23_EmptyResultRecorded ==
    (siteEmpty /\ pc \in {"loop", "resync", "scan", "afterLoop", "cartAfter", "returned"})
        => /\ taskResult.totalResultPages = 0
           /\ scannedPages = <<>>

\* C27: while page p is scanned the random-visit actions in use are the list
\* the task gives for page p (none when the task has no list for p), and
\* every random visit started on p uses the next unused action of that list.
C27_PerPageActions ==
    /\ []((pc = "scan" \/ InVisit) =>
            randomProductActionsToVisit =
                IF currentPageNumber \in DOMAIN task.randomProductVisitsPerPage
                THEN task.randomProductVisitsPerPage[currentPageNumber]
                ELSE <<>>)
    /\ [][randomVisits' # randomVisits
            => /\ indicator = currentPageNumber
               /\ currentPageNumber \in DOMAIN task.randomProductVisitsPerPage
               /\ randomProductIndex + 1 \in
                     DOMAIN task.randomProductVisitsPerPage[currentPageNumber]
               /\ vAction' = task.randomProductVisitsPerPage[currentPageNumber]
                                                            [randomProductIndex + 1]]_vars
C27_Witness ==
    /\ pc = "vHuman"
    /\ vKind = "random"
    /\ currentPageNumber = 2
    /\ Len(task.randomProductVisitsPerPage) = 2
    /\ task.randomProductVisitsPerPage[1] = <<>>
    /\ randomVisits = 1

\* C28: once an unsponsored main match has set foundId and foundOnPage, no
\* later match changes them.
C28_FirstMatchKept ==
    [][taskResult.foundBySearch
         => /\ taskResult'.foundId = taskResult.foundId
            /\ taskResult'.foundOnPage = taskResult.foundOnPage]_vars

\* C29: an item classified as main is visited as main only: it is never
\* entered in otherProducts, and neither the start nor the end of its visit
\* moves the page's random-slot index.
C29_MainOutsideRandomPool ==
    /\ [][(ScanStep /\ MatchesMain(product') /\ ~product'.sponsored)
            => /\ vKind' = "main"
               /\ randomVisits' = randomVisits
               /\ randomProductIndex' = randomProductIndex
               /\ taskResult'.otherProducts = taskResult.otherProducts]_vars
    /\ [][(pc = "vReturn" /\ vKind = "main")
            => /\ randomProductIndex' = randomProductIndex
               /\ taskResult'.otherProducts = taskResult.otherProducts]_vars
    /\ [](\A i \in DOMAIN taskResult.otherProducts :
             taskResult.otherProducts[i].productId
                 \notin ({task.productId} \cup task.variationIds))
C29_Witness ==
    /\ pc = "scan"
    /\ productIndex >= 1
    /\ MatchesMain(product)
    /\ ~product.sponsored
    /\ mainVisits = 1
    /\ Len(randomProductActionsToVisit) = 1
    /\ randomProductIndex = 0
    /\ taskResult.otherProducts = <<>>

\* C30: a listed item without a detail link, or whose url is not of the form
\* /product/<id>, is skipped: the step that handles it changes no result
\* field, starts no visit, leaves the random-slot index alone and the scan
\* goes on with the next item.
C30_UnusableItemSkipped ==
    [][(ScanStep /\ ~HasProductId(product'))
         => /\ taskResult' = taskResult
            /\ mainVisits' = mainVisits
            /\ randomVisits' = randomVisits
            /\ randomProductIndex' = randomProductIndex
            /\ pc' = "scan"
            /\ productIndex' = productIndex + 1]_vars

\* a text without any digit, or one that begins with a letter
Unparseable(text) ==
    \/ \A i \in DOMAIN text : text[i] \notin Digits
    \/ (text # <<>> /\ Head(text) = "x")
DigitsOnly(text) == text # <<>> /\ \A i \in DOMAIN text : text[i] \in Digits

\* C24: in the populated-result state totalResultItems is a number other
\* than 0, and it is 1 when the total-items text cannot be parsed;
\* totalResultPages is 1 without a page-index control and the number on the
\* last page entry when the control is there.
C24_PopulatedSummary ==
    (fPc = "done" /\ ~emptyWon)
        => /\ fResultItems \notin {Zero, NaN, Undefined}
           /\ Unparseable(countText) => fResultItems = One
           /\ pageControlCount = 0 => fResultPages = One
           /\ (pageControlCount > 0 /\ DigitsOnly(lastPageLabel))
                 => fResultPages = Num(lastPageLabel)
C24_Witness ==
    /\ fPc = "done"
    /\ ~emptyWon
    /\ countText = <<"x", "x">>
    /\ fResultItems = One
    /\ pageControlCount = 2
    /\ lastPageLabel = <<"1", "0">>
    /\ fResultPages = Num(<<"1", "0">>)

\* C25: when a field read back differs from the requested value, the call
\* goes on and the filters have been applied exactly twice (the first time
\* and one re-application) when it proceeds.
C25_ReappliedOnce ==
    (mismatchLogged /\ fPc \in {"race", "summary", "done"}) => applyCount = 2

\* C21: a readiness wait that saw the challenge first and returned normally
\* has reloaded exactly once and the site logo has appeared after the reload;
\* in particular it has not returned with the challenge showing again.
C21_ChallengeRecovered ==
    (gateReturned /\ firstMarker = "challenge")
        => /\ reloads = 1
           /\ afterReload = "logo"

\* C22: when handle has returned, every browsing context opened during the
\* run (main, cart, product, direct) is closed.
C22_AllContextsClosed ==
    hPc = "returned" => openPages = {}

\* C26: the cookie-banner handler never clicks on the main page while
\* checkProfile, inputSearchFilters or exploreSERP is operating on it.
C26_NoConcurrentClick ==
    clickDuring \notin MainPageOperations

\* C32: isFoundVariationId implies foundBySearch; foundBySearch implies that
\* foundId is the task's product or one of its variations and that
\* foundOnPage lies between 1 and min(totalResultPages, numberPagesToSearch);
\* foundBySearch and isFoundAdvertised, once true, stay true.
C32_FoundFlagsConsistent ==
    /\ [](taskResult.isFoundVariationId => taskResult.foundBySearch)
    /\ [](taskResult.foundBySearch
            => /\ taskResult.foundId \in ({task.productId} \cup task.variationIds)
               /\ 1 <= taskResult.foundOnPage
               /\ taskResult.foundOnPage <=
                     Min(taskResult.totalResultPages, task.numberPagesToSearch))
    /\ [][/\ taskResult.foundBySearch => taskResult'.foundBySearch
          /\ taskResult.isFoundAdvertised => taskResult'.isFoundAdvertised]_vars
C32_Witness ==
    /\ taskResult.foundBySearch
    /\ taskResult.isFoundVariationId
    /\ taskResult.isFoundAdvertised
    /\ taskResult.foundOnPage = 2

\* C33: the direct visit writes productInfo and nothing else: no other
\* result field changes, no visit with human activity is started, no
\* add-to-cart click is made and no cart snapshot is taken.
C33_DirectVisitOnlyScrapes ==
    [][directVisits' # directVisits
         => /\ [taskResult' EXCEPT !.productInfo = taskResult.productInfo] = taskResult
            /\ ~InVisit'
            /\ mainVisits' = mainVisits
            /\ randomVisits' = randomVisits
            /\ vResult' = vResult
            /\ clickCount' = clickCount
            /\ cart' = cart
            /\ beforeStatus' = beforeStatus
            /\ cartStatusBefore' = cartStatusBefore]_vars
C33_Witness ==
    /\ pc = "cartAfter"
    /\ directVisits = 1
    /\ taskResult.productInfo.set
    /\ taskResult.productInfo.productId = task.productId
    /\ taskResult.mainProductPageActions.productId = ""

\* C31: the recorded timeOnPage is the number of whole seconds from the start
\* of the human-activity loop to the end of its last activity.
C31_TimeOnPageIsElapsed ==
    aPc = "done" => actTimeOnPage = (clockNow - startTime) \div MsPerSecond

\* C35: for every price text and every item-count text in the localized
\* form, with any number of thousands separators, the parsed value is the
\* number written.
C35_ParsedIsWritten ==
    qPc = "parsed" => figParsed = figWritten

\* C34: when a main or random visit has completed, the results-list page is
\* in the foreground: the step that ends the visit puts it there and it is
\* still there while the list is examined or paged afterwards.
C34_ListInForeground ==
    /\ [][(hPc = "info" /\ hPc' = "serp") => front' = "main"]_vars
    /\ []((hPc = "serp" /\ visitsDone > 0) => front = "main")
C34_Witness ==
    /\ hPc = "serp"
    /\ visitsDone = 1
    /\ front = "main"
    /\ openPages = {"main", "cart"}

====
